---- MODULE Spec2Model ----
(***************************************************************************)
(* Model of scrapper_san_pablo.py: the per-identifier sequence             *)
(* search -> detail -> identifier match -> cart add -> price read ->       *)
(* cart remove of main(), the anonymous cart of the platform it talks to,  *)
(* and the CSV file written by write_rows.                                 *)
(*                                                                         *)
(* Text is modelled as a sequence of one-character strings (identifiers,   *)
(* codes, prices as printed) or of word tokens (product names); a missing  *)
(* JSON string and an empty one are both <<>>, which is how the code       *)
(* treats them (`x or ""`, `str(s or "")`, `if not code`).  Prices are     *)
(* integers in cents; a missing price is None.                             *)
(***************************************************************************)
EXTENDS Integers, Sequences, FiniteSets, TLC

(***************************************************************************)
(* Bounds of the model                                                     *)
(***************************************************************************)
\* longest input list of one run
MaxUpcs == 2
\* number of runs of main on the same output path
MaxRuns == 2
\* identifiers given to main over all the runs
MaxTotal == 2
\* longest list field of a product detail in the check of the identifier match
MaxListLen == 2

(***************************************************************************)
(* Utilities (UTILITARIOS)                                                 *)
(***************************************************************************)
\* Python's None where a number is expected
None == -1

Digits == {"0", "1", "2", "3", "4", "5", "6", "7", "8", "9"}

DigitVal(c) ==
    CASE c = "0" -> 0 [] c = "1" -> 1 [] c = "2" -> 2 [] c = "3" -> 3
      [] c = "4" -> 4 [] c = "5" -> 5 [] c = "6" -> 6 [] c = "7" -> 7
      [] c = "8" -> 8 [] c = "9" -> 9

DigitChr(d) ==
    CASE d = 0 -> "0" [] d = 1 -> "1" [] d = 2 -> "2" [] d = 3 -> "3"
      [] d = 4 -> "4" [] d = 5 -> "5" [] d = 6 -> "6" [] d = 7 -> "7"
      [] d = 8 -> "8" [] d = 9 -> "9"

\* re.sub(r"\D", "", str(s or ""))
clean_digits(s) == SelectSeq(s, LAMBDA c : c \in Digits)

\* str.strip() on a name: leading and trailing blanks go
RECURSIVE lstrip(_)
lstrip(s) == IF s # <<>> /\ Head(s) = " " THEN lstrip(Tail(s)) ELSE s

RECURSIVE rstrip(_)
rstrip(s) ==
    IF s # <<>> /\ s[Len(s)] = " " THEN rstrip(SubSeq(s, 1, Len(s) - 1)) ELSE s

strip(s) == rstrip(lstrip(s))

\* decimal digits of a natural number, as printed
RECURSIVE NatStr(_)
NatStr(n) == IF n < 10 THEN <<DigitChr(n)>> ELSE Append(NatStr(n \div 10), DigitChr(n % 10))

\* value of a string of digits ("" is 0)
RECURSIVE StrNat(_)
StrNat(s) ==
    IF s = <<>> THEN 0 ELSE 10 * StrNat(SubSeq(s, 1, Len(s) - 1)) + DigitVal(s[Len(s)])

\* A JSON value as num() receives it: null, a boolean, a number (in cents)
\* or a string.
JNull == [t |-> "null", n |-> 0, s |-> <<>>]
JBool == [t |-> "bool", n |-> 1, s |-> <<>>]
JNum(c) == [t |-> "num", n |-> c, s |-> <<>>]
JStr(str) == [t |-> "str", n |-> 0, s |-> str]

NumChars == Digits \cup {".", ","}

\* re.search(r"([\d.,]+)", s): the first maximal run of digits, dots, commas
RECURSIVE TakeNum(_)
TakeNum(s) ==
    IF s # <<>> /\ Head(s) \in NumChars THEN <<Head(s)>> \o TakeNum(Tail(s)) ELSE <<>>

RECURSIVE FirstNumRun(_)
FirstNumRun(s) ==
    IF s = <<>> THEN <<>>
    ELSE IF Head(s) \in NumChars THEN TakeNum(s)
    ELSE FirstNumRun(Tail(s))

\* position of the first "." of s, 0 when there is none
RECURSIVE DotAt(_, _)
DotAt(s, i) ==
    IF i > Len(s) THEN 0 ELSE IF s[i] = "." THEN i ELSE DotAt(s, i + 1)

\* float(txt) in cents, None when float() raises ValueError; strings of the
\* platform carry at most two decimals
ParseFloat(txt) ==
    LET d == DotAt(txt, 1)
        ip == IF d = 0 THEN txt ELSE SubSeq(txt, 1, d - 1)
        fp == IF d = 0 THEN <<>> ELSE SubSeq(txt, d + 1, Len(txt))
        f2 == SubSeq(fp \o <<"0", "0">>, 1, 2)
    IN  IF \/ DotAt(fp, 1) # 0
           \/ ip \o fp = <<>>
        THEN None
        ELSE 100 * StrNat(ip) + StrNat(f2)

num(x) ==
    IF x.t = "null" \/ x.t = "bool" THEN None
    ELSE IF x.t = "num" THEN x.n
    ELSE LET m == FirstNumRun(x.s)
         IN  IF m = <<>> THEN None
             ELSE ParseFloat(SelectSeq(m, LAMBDA c : c # ","))

\* money(v) of a value that num() already made a float or None:
\* "" if None else f"{v:.2f}"
money(v) ==
    IF v = None THEN <<>>
    ELSE NatStr(v \div 100) \o <<".">> \o <<DigitChr((v % 100) \div 10), DigitChr(v % 10)>>


(***************************************************************************)
(* The output file (write_rows)                                            *)
(***************************************************************************)
headers ==
    <<"UPC", "Precio sin promoción", "Precio con promoción",
      "Nombre del producto", "Fecha Scrapping">>

HeaderSet == {headers[k] : k \in DOMAIN headers}

\* one result record: the dict appended to rows
Row(upc, sin, con, nombre, fecha) ==
    [h \in HeaderSet |->
        CASE h = "UPC" -> upc
          [] h = "Precio sin promoción" -> sin
          [] h = "Precio con promoción" -> con
          [] h = "Nombre del producto" -> nombre
          [] h = "Fecha Scrapping" -> fecha]

\* csv.DictWriter.writeheader / writerow: the cells in fieldnames order
writeheader == [kind |-> "header", cells |-> [k \in DOMAIN headers |-> <<headers[k]>>]]

writerow(r) == [kind |-> "row", cells |-> [k \in DOMAIN headers |-> r[headers[k]]]]

\* write_rows that writes the header on every call
write_rows_always_header(rs, f) ==
    [exists |-> TRUE,
     lines |-> f.lines \o <<writeheader>> \o [i \in DOMAIN rs |-> writerow(rs[i])]]

\* The file after write_rows(rs, out_csv), f the file before: opened in
\* append mode, the header written when the path did not exist.
write_rows(rs, f) ==
    LET new == ~f.exists
        start == IF new THEN <<writeheader>> ELSE <<>>
    IN  [exists |-> TRUE,
         lines |-> f.lines \o start \o [i \in DOMAIN rs |-> writerow(rs[i])]]

\* now_str() at time t (the clock of the model ticks once per run)
now_str(t) == <<"T", ToString(t)>>

Dash == <<"-">>

NotFoundRow(upc, t) == Row(upc, Dash, Dash, <<"No encontrado">>, now_str(t))

NoPriceRow(upc, nombre, t) == Row(upc, Dash, Dash, nombre, now_str(t))

\* an except branch that leaves the price fields empty
ErrorRow_blank(upc, e, t) == Row(upc, <<>>, <<>>, <<"Error general: ", e>>, now_str(t))

\* the record of the except branch: f"Error general: {e}"
ErrorRow(upc, e, t) == Row(upc, Dash, Dash, <<"Error general: ", e>>, now_str(t))

\* the record built from what get_prices returned
\* a record that takes the total for a promotion price unless it is higher
\* than the base
PricedRow_unless_higher(upc, base, total, nombre, t) ==
    LET promo == IF total # None /\ base # None /\ total <= base THEN total ELSE None
    IN  Row(upc, money(base), money(promo), nombre, now_str(t))

\* `promo = total if (total is not None and base is not None and
\* total < base - 1e-9) else None` and the record with money(base) and
\* money(promo); prices are whole cents, so that `< base - 1e-9` is `<`
PricedRow(upc, base, total, nombre, t) ==
    LET promo == IF total # None /\ base # None /\ total < base THEN total ELSE None
    IN  Row(upc, money(base), money(promo), nombre, now_str(t))

(***************************************************************************)
(* Identifier match (upc_matches)                                          *)
(***************************************************************************)
DirectKeys == {"gtin", "ean", "upc", "sku", "visualCode"}

ListKeys == {"eans", "gtins", "upcs"}

\* a feature of a classification: its featureValues' values and its own value
Feature(vals, v) == [featureValues |-> vals, value |-> v]

\* the JSON object of a product detail; `some` is the truth value of the dict
Detail(nm, g, e, u, s, vc, es, gs, us, cls) ==
    [some |-> TRUE, name |-> nm, gtin |-> g, ean |-> e, upc |-> u, sku |-> s,
     visualCode |-> vc, eans |-> es, gtins |-> gs, upcs |-> us,
     classifications |-> cls]

\* {}: what OCC.detail returns for a non-OK response or an unparseable body
EmptyDetail ==
    [some |-> FALSE, name |-> <<>>, gtin |-> <<>>, ean |-> <<>>, upc |-> <<>>,
     sku |-> <<>>, visualCode |-> <<>>, eans |-> <<>>, gtins |-> <<>>,
     upcs |-> <<>>, classifications |-> <<>>]

\* a occurs in b as a contiguous run
IsSubstring(a, b) ==
    \E i \in 0 .. (Len(b) - Len(a)) : SubSeq(b, i + 1, i + Len(a)) = a

\* every value of the fields upc_matches looks at
KnownFields(d) ==
    {d[k] : k \in DirectKeys}
        \cup UNION {{d[k][i] : i \in DOMAIN d[k]} : k \in ListKeys}
        \cup UNION {UNION {{d.classifications[c][f].featureValues[v] :
                                v \in DOMAIN d.classifications[c][f].featureValues}
                           \cup {d.classifications[c][f].value} :
                           f \in DOMAIN d.classifications[c]} :
                    c \in DOMAIN d.classifications}

\* a match that takes the identifier's digits anywhere inside a field (`in`
\* for `==`)
upc_matches_substring(detail_json, upc) ==
    LET t == clean_digits(upc)
    IN  IF t = <<>> THEN FALSE
        ELSE \E f \in KnownFields(detail_json) : IsSubstring(t, clean_digits(f))

upc_matches(detail_json, upc) ==
    LET t == clean_digits(upc)
        cls == detail_json.classifications
    IN  IF t = <<>> THEN FALSE
        ELSE \/ \E k \in DirectKeys : clean_digits(detail_json[k]) = t
             \/ \E k \in ListKeys : \E i \in DOMAIN detail_json[k] :
                    clean_digits(detail_json[k][i]) = t
             \/ \E c \in DOMAIN cls : \E f \in DOMAIN cls[c] :
                    \/ \E v \in DOMAIN cls[c][f].featureValues :
                           clean_digits(cls[c][f].featureValues[v]) = t
                    \/ clean_digits(cls[c][f].value) = t


(***************************************************************************)
(* The platform: a fixed catalogue behind the REST API                     *)
(***************************************************************************)
CodeA == <<"A">>

CodeB == <<"B">>

\* the identifiers a run may be given
UA == <<"1", "2">>

UB == <<"3", "-", "4">>

UC == <<"9">>

Identifiers == {UA, UB, UC}

\* the query of the fallback search: f":relevance:freeText:{upc}"
FreeText(upc) == <<":relevance:freeText:">> \o upc

\* products(code,name) of a search response
Summary(c, nm) == [code |-> c, name |-> nm]

SearchIndex(q) ==
    IF q = UA
    THEN <<Summary(<<>>, <<"sin codigo">>), Summary(CodeB, <<"jarabe">>),
           Summary(CodeA, <<"asp">>)>>
    ELSE IF q = FreeText(UB) THEN <<Summary(CodeB, <<"jarabe">>)>>
    ELSE <<>>

\* the FULL detail of a product
ProductDetail(c) ==
    IF c = CodeA
    THEN Detail(<<" ", "aspirina">>, <<"1", "2">>, <<>>, <<>>, <<"A", "7">>, <<>>,
                <<>>, <<>>, <<>>, <<>>)
    ELSE Detail(<<>>, <<>>, <<>>, <<>>, <<"1", "2", "0">>, <<>>,
                << <<"5", "6">>, <<"0", "3", "4">>, <<"3", "4">> >>, <<>>, <<>>,
                << <<Feature(<< <<"1", "2", "5">> >>, <<"x">>)>> >>)

\* the basePrice.value and totalPrice.value the platform holds for each
\* product of the catalogue
PlatformPrices ==
    [c \in {CodeA, CodeB} |->
        IF c = CodeA
        THEN [basePrice |-> JNum(1000), totalPrice |-> JNum(800)]
        ELSE [basePrice |-> JStr(<<"$", "2", "0", ".", "5", "0">>),
              totalPrice |-> JNum(2050)]]

VARIABLE prices     \* the prices the platform holds, fixed while main runs

\* an entry of the cart as the cart GET returns it
CartEntry(c) ==
    [product |-> c, name |-> IF c = CodeA THEN <<"aspirina", " ">> ELSE <<>>,
     basePrice |-> prices[c].basePrice, totalPrice |-> prices[c].totalPrice]

\* The cart on the server.  POST entries adds an entry for the product, or
\* raises the quantity of the entry that already holds it; DELETE entries/n
\* removes entry n and renumbers the rest.
ServerAdd(entries, c) ==
    IF \E i \in DOMAIN entries : entries[i] = c THEN entries ELSE Append(entries, c)

ServerDelete(entries, n) ==
    IF n + 1 \in DOMAIN entries
    THEN SubSeq(entries, 1, n) \o SubSeq(entries, n + 2, Len(entries))
    ELSE entries

\* The cart a cart id names.  An id is written as the cart it names: "new",
\* the cart the POST of this run created, or "old", the cart of an earlier
\* run; the guid and the code of a cart name the same cart.
CartOf(id) == id

(***************************************************************************)
(* OCC and Cart: what each method returns for an outcome of its request    *)
(***************************************************************************)
\* OCC.search(q): [] unless the response is OK and parses
search(q, out) == IF out = "ok" THEN SearchIndex(q) ELSE <<>>

\* OCC.detail(code): {} unless the response is OK and parses
detail_of(c, out) == IF out = "ok" THEN ProductDetail(c) ELSE EmptyDetail

\* what get_prices returns when it returns None
NoPrices == [some |-> FALSE, base |-> None, total |-> None, name |-> <<>>, product |-> <<>>]

\* Cart.get_prices(cart_id, entry_idx): entries the cart's entries in the response
get_prices(entries, entry_idx, out) ==
    IF out # "ok" THEN NoPrices
    ELSE IF entries = <<>> THEN NoPrices
    ELSE LET e == CartEntry(entries[entry_idx + 1])
         IN  [some |-> TRUE, base |-> num(e.basePrice), total |-> num(e.totalPrice),
              name |-> strip(e.name), product |-> e.product]

\* a search that returns whatever the first search returned, found or not
NoFallback(ps) == FALSE

\* `occ.search(upc) or occ.search(...)`: the second search is made when the
\* first returned an empty list
Fallback(ps) == ps = <<>>

\* a pick that takes the first product whose detail could be fetched
Matches_any(dj, u) == dj.some

\* `if dj and upc_matches(dj, upc)`
Matches(dj, u) == dj.some /\ upc_matches(dj, u)

\* a price read that is never repeated
NoRetry(g) == FALSE

\* `if not got` after the first price read
Retry(g) == ~g.some

\* first product at or after position j that has a code (the loop's
\* `if not code: continue`), 0 when there is none
RECURSIVE NextCoded(_, _)
NextCoded(ps, j) ==
    IF j > Len(ps) THEN 0
    ELSE IF ps[j].code # <<>> THEN j
    ELSE NextCoded(ps, j + 1)


(***************************************************************************)
(* State                                                                   *)
(***************************************************************************)
VARIABLES
    run,        \* runs of main started so far (the clock of now_str)
    pc,         \* where main is
    upcs,       \* the input list of the run
    idx,        \* position in upcs of the identifier being processed
    rows,       \* the records of the run
    cart_id,    \* what Cart.create returned ("" for None)
    code,       \* Cart.create's local code
    products,   \* the products of the search
    k,          \* position in products of the detail loop
    picked,     \* the product picked for the identifier
    detail,     \* its detail
    name,       \* the name of the record
    got,        \* what get_prices returned
    srv,        \* the carts on the server: the entries of each
    has,        \* the carts that exist on the server
    csv,        \* the output file
    trace,      \* the calls made for the current identifier
    allok,      \* every request made so far for it got an OK response that parsed
    hist,       \* every record produced so far, over all the runs
    used,       \* identifiers given to the runs so far
    csv0,       \* the output file as it was when the run started
    created,    \* what Cart.create went through without a cart id, this run
    m_detail,   \* identifier match alone: the detail,
    m_upc,      \*   the identifier
    m_res       \*   and the result

vars ==
    <<run, pc, upcs, idx, rows, cart_id, code, products, k, picked, detail,
      name, got, srv, has, csv, trace, allok, hist, used, csv0, created,
      prices, m_detail, m_upc, m_res>>

mvars == <<m_detail, m_upc, m_res>>

itemvars == <<products, k, picked, detail, name, got>>

\* outcomes of a request: an OK response that parses, a non-OK response, an
\* OK response whose body does not parse, an exception raised by the request
Outcomes == {"ok", "nok", "bad", "exc"}

\* the lists of identifiers a run may be given
RECURSIVE ListsUpTo(_)
ListsUpTo(n) ==
    IF n = 0 THEN {<<>>}
    ELSE LET shorter == ListsUpTo(n - 1)
         IN  shorter \cup {Append(l, u) : l \in {x \in shorter : Len(x) = n - 1},
                                          u \in Identifiers}

NoProduct == Summary(<<>>, <<>>)

Event(c, a, r) == [call |-> c, arg |-> a, ret |-> r]

MainInit ==
    /\ run = 0
    /\ pc = "idle"
    /\ upcs = <<>>
    /\ idx = 0
    /\ rows = <<>>
    /\ cart_id = ""
    /\ code = ""
    /\ products = <<>>
    /\ k = 0
    /\ picked = NoProduct
    /\ detail = EmptyDetail
    /\ name = <<>>
    /\ got = NoPrices
    /\ srv = [new |-> <<>>, old |-> <<>>]
    /\ has = [new |-> FALSE, old |-> FALSE]
    /\ csv = [exists |-> FALSE, lines |-> <<>>]
    /\ trace = <<>>
    /\ allok = TRUE
    /\ hist = <<>>
    /\ used = 0
    /\ csv0 = csv
    /\ created = <<>>

Init ==
    /\ MainInit
    /\ prices = PlatformPrices
    /\ m_detail = EmptyDetail
    /\ m_upc = <<>>
    /\ m_res = "none"

(***************************************************************************)
(* main: start of a run and Cart.create                                    *)
(***************************************************************************)
\* The session's carts when a process of main has ended and the next one
\* starts: the browser context is persistent (user_data_dir), so the cart
\* the run used is still a cart of the session, next to the cart the next
\* run creates.  id is the run's cart id.
SessionCarts(id) ==
    LET prev == IF id # "" THEN CartOf(id) ELSE IF has.old THEN "old" ELSE "new"
    IN  [srv |-> [new |-> <<>>, old |-> srv[prev]],
         has |-> [new |-> FALSE, old |-> has[prev]]]

\* main is called with a list of identifiers
StartRun ==
    /\ pc \in {"idle", "aborted"}
    /\ run < MaxRuns
    /\ \E l \in ListsUpTo(MaxUpcs) :
          /\ used + Len(l) <= MaxTotal
          /\ upcs' = l
          /\ used' = used + Len(l)
    /\ run' = run + 1
    /\ pc' = "create_post"
    /\ srv' = SessionCarts(cart_id).srv
    /\ has' = SessionCarts(cart_id).has
    /\ cart_id' = ""
    /\ csv0' = csv
    /\ created' = <<>>
    /\ UNCHANGED <<idx, rows, code, itemvars, csv, trace, allok, hist, prices, mvars>>

\* a main without `if not cart_id: raise`: the loop is entered with whatever
\* Cart.create returned
Return_unchecked(g, c) ==
    LET id == IF g # "" THEN g ELSE c
    IN  /\ cart_id' = id
        /\ code' = ""
        /\ pc' = "loop"
        /\ upcs' = upcs
        /\ created' = IF id = "" THEN Append(created, "None") ELSE <<>>

\* `return guid or code or None` of Cart.create, then main's
\* `if not cart_id: raise RuntimeError`, which ends the process
Return(g, c) ==
    LET id == IF g # "" THEN g ELSE c
    IN  /\ cart_id' = id
        /\ code' = ""
        /\ pc' = IF id = "" THEN "aborted" ELSE "loop"
        /\ upcs' = IF id = "" THEN <<>> ELSE upcs
        /\ created' = IF id = "" THEN Append(created, "None") ELSE <<>>

\* an exception of Cart.create leaves main and ends the process
Abort ==
    /\ pc' = "aborted"
    /\ code' = ""
    /\ upcs' = <<>>
    /\ created' = Append(created, "raise")
    /\ UNCHANGED cart_id

\* the ids a cart JSON may carry: guid and code, each possibly missing
Shapes == {"both", "guid", "code", "neither"}

GuidOf(cart, shape) == IF shape \in {"both", "guid"} THEN cart ELSE ""

CodeOf(cart, shape) == IF shape \in {"both", "code"} THEN cart ELSE ""

\* guid or code of a cart JSON
GuidOrCode(cart, shape) ==
    IF GuidOf(cart, shape) # "" THEN GuidOf(cart, shape) ELSE CodeOf(cart, shape)

\* POST carts; Cart.create goes on to the list of carts when the response
\* carries no guid
CreatePost ==
    /\ pc = "create_post"
    /\ \E out \in Outcomes, shape \in Shapes :
          /\ IF out \in {"ok", "bad"}
             THEN /\ srv' = [srv EXCEPT !.new = <<>>]
                  /\ has' = [has EXCEPT !.new = TRUE]
             ELSE UNCHANGED <<srv, has>>
          /\ CASE out = "exc" -> Abort
               [] out \in {"nok", "bad"} -> Return("", "")
               [] out = "ok" ->
                    IF GuidOf("new", shape) # ""
                    THEN Return(GuidOf("new", shape), CodeOf("new", shape))
                    ELSE /\ pc' = "create_list"
                         /\ code' = CodeOf("new", shape)
                         /\ created' = <<"POST carts">>
                         /\ UNCHANGED <<cart_id, upcs>>
    /\ UNCHANGED <<run, idx, rows, itemvars, csv, trace, allok, hist, used, csv0,
                   prices, mvars>>

\* the carts that exist
Carts == {c \in {"new", "old"} : has[c]}

\* GET carts: the list of the session's carts, of which arr[0] is read; on
\* to the current cart when there is still no guid
CreateList ==
    /\ pc = "create_list"
    /\ \E out \in Outcomes :
          CASE out = "exc" -> Abort
            [] out \in {"nok", "bad"} ->
                 /\ pc' = "create_current"
                 /\ created' = Append(created, "GET carts")
                 /\ UNCHANGED <<cart_id, code, upcs>>
            [] out = "ok" ->
                 \E first \in Carts \cup {"none"}, shape \in Shapes :
                    LET g == IF first = "none" THEN "" ELSE GuidOrCode(first, shape)
                    IN  IF g # ""
                        THEN Return(g, code)
                        ELSE /\ pc' = "create_current"
                             /\ created' = Append(created, "GET carts")
                             /\ UNCHANGED <<cart_id, code, upcs>>
    /\ UNCHANGED <<run, idx, rows, itemvars, srv, has, csv, trace, allok, hist, used, csv0,
                   prices, mvars>>

\* GET carts/current, and the return of Cart.create
CreateCurrent ==
    /\ pc = "create_current"
    /\ \E out \in Outcomes :
          CASE out = "exc" -> Abort
            [] out \in {"nok", "bad"} -> Return("", code)
            [] out = "ok" ->
                 \E cur \in Carts, shape \in Shapes : Return(GuidOrCode(cur, shape), code)
    /\ UNCHANGED <<run, idx, rows, itemvars, srv, has, csv, trace, allok, hist, used, csv0,
                   prices, mvars>>

(***************************************************************************)
(* main: the loop over the identifiers                                     *)
(***************************************************************************)
upc == upcs[idx]

\* the entries of the cart that cart_id names
entries == srv[CartOf(cart_id)]

Called(c, a, r) == trace' = Append(trace, Event(c, a, r))

\* rows.append(...) and the end of the iteration (`continue`, or the end of
\* the loop body)
Finish(r) ==
    /\ rows' = Append(rows, r)
    /\ hist' = Append(hist, r)
    /\ pc' = "loop"

\* an except branch that logs the exception and appends no record
Except_log_only(e) ==
    /\ pc' = "loop"
    /\ UNCHANGED <<rows, hist>>

\* the except branch of the loop body
Except(e) == Finish(ErrorRow(upc, e, run))

\* `for upc in upcs`: the next identifier, or the end of the loop and
\* context.close()
ForNext ==
    /\ pc = "loop"
    /\ IF idx < Len(upcs)
       THEN /\ idx' = idx + 1
            /\ pc' = "search1"
       ELSE /\ pc' = "write"
            /\ UNCHANGED idx
    /\ trace' = <<>>
    /\ allok' = TRUE
    /\ products' = <<>>
    /\ k' = 0
    /\ picked' = NoProduct
    /\ detail' = EmptyDetail
    /\ name' = <<>>
    /\ got' = NoPrices
    /\ UNCHANGED <<run, upcs, rows, cart_id, code, srv, has, csv, hist, used, csv0,
                   created, prices, mvars>>

\* occ.search(upc)
Search1 ==
    /\ pc = "search1"
    /\ \E out \in Outcomes :
          /\ allok' = (allok /\ out = "ok")
          /\ IF out = "exc"
             THEN /\ Called("search", upc, "raise")
                  /\ Except("timeout")
                  /\ UNCHANGED <<products, k>>
             ELSE /\ products' = search(upc, out)
                  /\ Called("search", upc, IF products' = <<>> THEN "empty" ELSE "products")
                  /\ IF Fallback(products')
                     THEN pc' = "search2" /\ k' = k
                     ELSE pc' = "detail" /\ k' = 1
                  /\ UNCHANGED <<rows, hist>>
    /\ UNCHANGED <<run, upcs, idx, cart_id, code, picked, detail, name, got,
                   srv, has, csv, used, csv0,
                   created, prices, mvars>>

\* `or occ.search(f":relevance:freeText:{upc}")`, then `if not products`
Search2 ==
    /\ pc = "search2"
    /\ \E out \in Outcomes :
          /\ allok' = (allok /\ out = "ok")
          /\ IF out = "exc"
             THEN /\ Called("search", FreeText(upc), "raise")
                  /\ Except("timeout")
                  /\ UNCHANGED <<products, k>>
             ELSE /\ products' = search(FreeText(upc), out)
                  /\ Called("search", FreeText(upc),
                            IF products' = <<>> THEN "empty" ELSE "products")
                  /\ IF products' # <<>>
                     THEN pc' = "detail" /\ k' = 1 /\ UNCHANGED <<rows, hist>>
                     ELSE Finish(NotFoundRow(upc, run)) /\ k' = k
    /\ UNCHANGED <<run, upcs, idx, cart_id, code, picked, detail, name, got,
                   srv, has, csv, used, csv0,
                   created, prices, mvars>>

\* `for pdt in products`: occ.detail(code) of the next product that has a
\* code, and the match of the identifier against it
DetailFetch ==
    /\ pc = "detail"
    /\ NextCoded(products, k) # 0
    /\ LET j == NextCoded(products, k)
           pdt == products[j]
       IN  \E out \in Outcomes :
              /\ allok' = (allok /\ out = "ok")
              /\ IF out = "exc"
                 THEN /\ Called("detail", pdt.code, "raise")
                      /\ Except("timeout")
                      /\ UNCHANGED <<k, picked, detail>>
                 ELSE LET dj == detail_of(pdt.code, out)
                      IN  IF Matches(dj, upc)
                          THEN /\ picked' = pdt
                               /\ detail' = dj
                               /\ Called("detail", pdt.code, "match")
                               /\ pc' = "add"
                               /\ UNCHANGED <<k, rows, hist>>
                          ELSE /\ k' = j + 1
                               /\ Called("detail", pdt.code, "nomatch")
                               /\ UNCHANGED <<pc, picked, detail, rows, hist>>
    /\ UNCHANGED <<run, upcs, idx, cart_id, code, products, name, got,
                   srv, has, csv, used, csv0,
                   created, prices, mvars>>

\* the loop over products ends with nothing picked: `if not picked`
DetailNone ==
    /\ pc = "detail"
    /\ NextCoded(products, k) = 0
    /\ allok' = allok
    /\ Finish(NotFoundRow(upc, run))
    /\ UNCHANGED <<run, upcs, idx, cart_id, code, itemvars, srv, has, csv,
                   trace, used, csv0,
                   created, prices, mvars>>

\* code and name of the picked product, then cart.add_entry(cart_id, code).
\* A request that raises may or may not have reached the server.
AddEntry ==
    /\ pc = "add"
    /\ name' = strip(IF detail.name # <<>> THEN detail.name ELSE picked.name)
    /\ \E out \in {"ok", "nok", "exc", "exc_done"} :
          /\ allok' = (allok /\ out = "ok")
          /\ srv' = IF out \in {"ok", "exc_done"}
                    THEN [srv EXCEPT ![CartOf(cart_id)] = ServerAdd(@, picked.code)]
                    ELSE srv
          /\ CASE out \in {"exc", "exc_done"} ->
                    Called("add", picked.code, "raise") /\ Except("timeout")
               [] out = "nok" ->
                    /\ Called("add", picked.code, "false")
                    /\ Finish(NoPriceRow(upc, name', run))
               [] out = "ok" ->
                    /\ Called("add", picked.code, "true")
                    /\ pc' = "prices1"
                    /\ UNCHANGED <<rows, hist>>
    /\ UNCHANGED <<run, upcs, idx, cart_id, code, products, k, picked, detail,
                   got, has, csv, used, csv0,
                   created, prices, mvars>>

\* the outcomes of the cart GET: also an OK response that lists no entries
ReadOutcomes == Outcomes \cup {"noentries"}

ReadEntries(out) == IF out = "noentries" THEN <<>> ELSE entries

ReadOutcome(out) == IF out = "noentries" THEN "ok" ELSE out

\* `if not got` after the reads: the record without prices, or the record
\* built from what the read returned; then on to cart.remove
AfterReads ==
    /\ name' = IF got'.some /\ got'.name # <<>> THEN got'.name ELSE name
    /\ rows' = Append(rows, IF got'.some
                            THEN PricedRow(upc, got'.base, got'.total, name', run)
                            ELSE NoPriceRow(upc, name', run))
    /\ hist' = Append(hist, rows'[Len(rows')])
    /\ pc' = "remove"

\* got = cart.get_prices(cart_id, entry_idx=0)
GetPrices1 ==
    /\ pc = "prices1"
    /\ \E out \in ReadOutcomes :
          /\ allok' = (allok /\ out = "ok")
          /\ IF out = "exc"
             THEN /\ Called("get_prices", <<>>, "raise")
                  /\ Except("timeout")
                  /\ UNCHANGED <<got, name>>
             ELSE /\ got' = get_prices(ReadEntries(out), 0, ReadOutcome(out))
                  /\ Called("get_prices", <<>>, IF got'.some THEN "prices" ELSE "none")
                  /\ IF Retry(got')
                     THEN /\ pc' = "prices2"
                          /\ UNCHANGED <<rows, hist, name>>
                     ELSE AfterReads
    /\ UNCHANGED <<run, upcs, idx, cart_id, code, products, k, picked, detail,
                   srv, has, csv, used, csv0,
                   created, prices, mvars>>

\* the second read, after `if not got`
GetPrices2 ==
    /\ pc = "prices2"
    /\ \E out \in ReadOutcomes :
          /\ allok' = (allok /\ out = "ok")
          /\ IF out = "exc"
             THEN /\ Called("get_prices", <<>>, "raise")
                  /\ Except("timeout")
                  /\ UNCHANGED <<got, name>>
             ELSE /\ got' = get_prices(ReadEntries(out), 0, ReadOutcome(out))
                  /\ Called("get_prices", <<>>, IF got'.some THEN "prices" ELSE "none")
                  /\ AfterReads
    /\ UNCHANGED <<run, upcs, idx, cart_id, code, products, k, picked, detail,
                   srv, has, csv, used, csv0,
                   created, prices, mvars>>

\* Cart.remove(cart_id, entry_idx): the DELETE, its response ignored and
\* its exception swallowed
remove(es, entry_idx, out) ==
    IF out \in {"ok", "exc_done"} THEN ServerDelete(es, entry_idx) ELSE es

\* cart.remove(cart_id, entry_idx=0), the last statement of the iteration
Remove ==
    /\ pc = "remove"
    /\ \E out \in {"ok", "nok", "exc", "exc_done"} :
          /\ srv' = [srv EXCEPT ![CartOf(cart_id)] = remove(@, 0, out)]
          /\ Called("remove", <<"0">>, IF out \in {"exc", "exc_done"} THEN "swallowed" ELSE "done")
    /\ pc' = "loop"
    /\ UNCHANGED <<run, upcs, idx, rows, cart_id, code, itemvars, has, csv,
                   allok, hist, used, csv0,
                   created, prices, mvars>>

\* write_rows(rows, out_csv) after the loop, and the end of the process
WriteRows ==
    /\ pc = "write"
    /\ csv' = write_rows(rows, csv)
    /\ pc' = "idle"
    /\ upcs' = <<>>
    /\ idx' = 0
    /\ rows' = <<>>
    /\ UNCHANGED <<run, cart_id, code, itemvars, srv, has, trace, allok, hist, used, csv0,
                   created, prices, mvars>>

Next ==
    \/ StartRun
    \/ CreatePost
    \/ CreateList
    \/ CreateCurrent
    \/ ForNext
    \/ Search1
    \/ Search2
    \/ DetailFetch
    \/ DetailNone
    \/ AddEntry
    \/ GetPrices1
    \/ GetPrices2
    \/ Remove
    \/ WriteRows

Spec == Init /\ [][Next]_vars


(***************************************************************************)
(* The identifier match alone, over a range of details and identifiers     *)
(***************************************************************************)
\* field values and identifiers: digits with and without other characters
MatchValues ==
    {<<>>, <<"2">>, <<"1", "2">>, <<"1", "-", "2">>, <<"1", "2", "3">>, <<"a">>}

RECURSIVE ValueLists(_)
ValueLists(n) ==
    IF n = 0 THEN {<<>>}
    ELSE LET shorter == ValueLists(n - 1)
         IN  shorter \cup {Append(l, v) : l \in {x \in shorter : Len(x) = n - 1},
                                          v \in MatchValues}

\* details with one of the fields upc_matches looks at filled in
MatchDetails ==
    {[EmptyDetail EXCEPT !.some = TRUE, ![key] = v] : key \in DirectKeys, v \in MatchValues}
        \cup {[EmptyDetail EXCEPT !.some = TRUE, ![key] = l] :
                 key \in ListKeys, l \in ValueLists(MaxListLen)}
        \cup {[EmptyDetail EXCEPT !.some = TRUE, !.classifications = << <<Feature(l, v)>> >>] :
                 l \in ValueLists(MaxListLen), v \in MatchValues}

MatchInit ==
    /\ MainInit
    /\ prices = PlatformPrices
    /\ m_detail \in MatchDetails
    /\ m_upc \in MatchValues
    /\ m_res = "none"

\* upc_matches(m_detail, m_upc)
Match ==
    /\ m_res = "none"
    /\ m_res' = IF upc_matches(m_detail, m_upc) THEN "true" ELSE "false"
    /\ UNCHANGED <<run, pc, upcs, idx, rows, cart_id, code, itemvars, srv, has, csv,
                   trace, allok, hist, used, csv0, created, prices, m_detail, m_upc>>

MatchNext == Match

SpecMatch == MatchInit /\ [][MatchNext]_vars

(***************************************************************************)
(* main over a range of prices: one identifier, and each basePrice.value   *)
(* and totalPrice.value that the cart GET may carry for product A          *)
(***************************************************************************)
\* the values of a price in the JSON of a cart entry: missing, a boolean,
\* numbers, a string that holds a number and a string that holds none
PriceValues ==
    {JNull, JBool, JNum(800), JNum(1000), JStr(<<"$", "1", "0", ".", "0", "0">>),
     JStr(<<"n", "/", "a">>)}

PriceTables ==
    {[PlatformPrices EXCEPT ![CodeA] = [basePrice |-> b, totalPrice |-> t]] :
        b \in PriceValues, t \in PriceValues}

\* main is still to be given its last identifier
PriceInit ==
    /\ run = 0
    /\ pc = "idle"
    /\ upcs = <<>>
    /\ idx = 0
    /\ rows = <<>>
    /\ cart_id = ""
    /\ code = ""
    /\ products = <<>>
    /\ k = 0
    /\ picked = NoProduct
    /\ detail = EmptyDetail
    /\ name = <<>>
    /\ got = NoPrices
    /\ srv = [new |-> <<>>, old |-> <<>>]
    /\ has = [new |-> FALSE, old |-> FALSE]
    /\ csv = [exists |-> FALSE, lines |-> <<>>]
    /\ trace = <<>>
    /\ allok = TRUE
    /\ hist = <<>>
    /\ used = MaxTotal - 1
    /\ csv0 = csv
    /\ created = <<>>
    /\ prices \in PriceTables
    /\ m_detail = EmptyDetail
    /\ m_upc = <<>>
    /\ m_res = "none"

SpecPrice == PriceInit /\ [][Next]_vars

(***************************************************************************)
(* Properties                                                              *)
(***************************************************************************)
SinPromo(r) == r["Precio sin promoción"]

ConPromo(r) == r["Precio con promoción"]

Nombre(r) == r["Nombre del producto"]

\* a record of the except branch
IsErrorRow(r) ==
    /\ SinPromo(r) = Dash
    /\ ConPromo(r) = Dash
    /\ Len(Nombre(r)) >= 1
    /\ Nombre(r)[1] = "Error general: "

\* some call of the current identifier's trace returned r
Returned(c, r) == \E i \in DOMAIN trace : trace[i].call = c /\ trace[i].ret = r

\* C1: a run that obtained a cart id leaves the loop with exactly one record
\* per input identifier, in input order, whatever the outcomes of the calls:
\* rows is as long as upcs and the UPC of the i-th record is the i-th
\* identifier.  (At the top of the loop the same holds of the identifiers
\* processed so far.)
C1_OneRecordPerIdentifier ==
    /\ pc = "write" => Len(rows) = Len(upcs)
    /\ pc \in {"loop", "write"} =>
          /\ Len(rows) = idx
          /\ \A i \in DOMAIN rows : rows[i]["UPC"] = upcs[i]

\* C1 witness: the loop is left with two records, the first of an identifier
\* whose call raised and the second with a price
C1_Witness ==
    /\ pc = "write"
    /\ Len(upcs) = 2
    /\ Len(rows) = 2
    /\ IsErrorRow(rows[1])
    /\ SinPromo(rows[2]) # Dash

\* the records written so far: those of the completed runs
Written == SubSeq(hist, 1, Len(hist) - Len(rows))

\* C2: starting from an absent file, the file holds exactly one header row,
\* as its first line, followed by the records of every completed run in run
\* order and, within a run, in input order; and a step never alters or
\* removes a line the file already holds.
C2_FileIsHeaderThenRecords ==
    /\ [](/\ ~csv.exists => csv.lines = <<>> /\ Written = <<>>
          /\ csv.exists =>
                /\ Len(csv.lines) = 1 + Len(Written)
                /\ csv.lines[1] = writeheader
                /\ \A i \in DOMAIN Written :
                      /\ csv.lines[i + 1].kind = "row"
                      /\ csv.lines[i + 1].cells = <<Written[i]["UPC"], SinPromo(Written[i]),
                                                    ConPromo(Written[i]), Nombre(Written[i]),
                                                    Written[i]["Fecha Scrapping"]>>)
    /\ [][/\ Len(csv'.lines) >= Len(csv.lines)
          /\ SubSeq(csv'.lines, 1, Len(csv.lines)) = csv.lines]_vars

\* C2 witness: two completed runs, each of which wrote a record
C2_Witness ==
    /\ pc = "idle"
    /\ run = 2
    /\ Len(csv.lines) = 3
    /\ csv.lines[2].cells[5] = now_str(1)
    /\ csv.lines[3].cells[5] = now_str(2)

\* C3 as stated: if any call made for the identifier raised, cart remove
\* included, the identifier's record has "-" in both price fields and a name
\* that starts with "Error general:"
C3_AnyRaiseGivesErrorRecord ==
    (pc = "loop" /\ idx > 0 /\ (Returned("search", "raise") \/ Returned("detail", "raise")
                                \/ Returned("add", "raise") \/ Returned("get_prices", "raise")
                                \/ Returned("remove", "swallowed")))
        => IsErrorRow(rows[idx])

\* C3 amended: an exception raised by search, detail, cart add or price read
\* gives the identifier the "Error general:" record with "-" prices and ends
\* its processing; an exception raised by the cart remove request is
\* swallowed by Cart.remove and leaves the record already produced; either
\* way the loop goes on: at the top of the loop every identifier processed so
\* far has its record, and the process is never aborted inside the loop.
C3_ErrorHandlingPerItem ==
    /\ (Returned("search", "raise") \/ Returned("detail", "raise")
        \/ Returned("add", "raise") \/ Returned("get_prices", "raise"))
          => /\ pc = "loop"
             /\ trace[Len(trace)].ret = "raise"
             /\ IsErrorRow(rows[idx])
             /\ rows[idx]["UPC"] = upc
    /\ Returned("remove", "swallowed")
          => /\ pc = "loop"
             /\ ~IsErrorRow(rows[idx])
             /\ rows[idx]["UPC"] = upc
    /\ pc = "loop" => Len(rows) = idx
    /\ (pc = "aborted") => rows = <<>> /\ idx = 0

\* C3 witness: a call of the first identifier raised, it got the error
\* record, and the second identifier was processed and got a record that is
\* not an error record
C3_Witness ==
    /\ pc = "loop"
    /\ Len(rows) = 2
    /\ IsErrorRow(rows[1])
    /\ ~IsErrorRow(rows[2])
    /\ Returned("remove", "swallowed")


\* the place of a call in the sequence search, detail fetch (with the
\* identifier match), cart add, price read, cart cleanup
Rank(c) ==
    CASE c = "search" -> 1 [] c = "detail" -> 2 [] c = "add" -> 3
      [] c = "get_prices" -> 4 [] c = "remove" -> 5

\* the codes of the products the search returned
Codes == {products[i].code : i \in DOMAIN products} \ {<<>>}

\* C5: for each identifier the calls occur in the order search, detail fetch
\* and match, cart add, price read, cart remove, and each is reached only if
\* the previous one succeeded: a detail fetch only for a product (with a
\* code) that a search returned, a cart add only for the product whose
\* fetched detail matched the identifier, a price read only after a cart add
\* that returned OK, a cart remove only after a price read was attempted.
C5_StepsInOrder ==
    \A j \in DOMAIN trace :
       /\ \A i \in 1 .. (j - 1) : Rank(trace[i].call) <= Rank(trace[j].call)
       /\ trace[j].call = "detail" =>
             /\ trace[j].arg \in Codes
             /\ \E i \in 1 .. (j - 1) : trace[i].call = "search" /\ trace[i].ret = "products"
       /\ trace[j].call = "add" =>
             /\ trace[j - 1].call = "detail"
             /\ trace[j - 1].ret = "match"
             /\ trace[j - 1].arg = trace[j].arg
             /\ picked.code = trace[j].arg
             /\ detail = ProductDetail(trace[j].arg)
             /\ upc_matches(detail, upc)
       /\ trace[j].call = "get_prices" =>
             \E i \in 1 .. (j - 1) : trace[i].call = "add" /\ trace[i].ret = "true"
       /\ trace[j].call = "remove" =>
             /\ j = Len(trace)
             /\ trace[j - 1].call = "get_prices"

\* C5 witness: an identifier went through the whole sequence, with a detail
\* that did not match before the one that did
C5_Witness ==
    /\ pc = "loop"
    /\ Returned("search", "products")
    /\ Returned("detail", "nomatch")
    /\ Returned("detail", "match")
    /\ Returned("add", "true")
    /\ Returned("get_prices", "prices")
    /\ Returned("remove", "done")

\* C6 as stated: every cart add that returned OK is followed by a cart remove
\* request before the next identifier begins and before the run ends, on
\* every path
C6_AddIsFollowedByRemove ==
    (pc = "loop" /\ Returned("add", "true")) => trace[Len(trace)].call = "remove"

\* the queries of the two searches of the current identifier
IsFirstSearch(e) == e.call = "search" /\ e.arg = upc

IsFallbackSearch(e) == e.call = "search" /\ e.arg = FreeText(upc)

\* C7: the fallback search with query ":relevance:freeText:<identifier>" is
\* issued exactly when the first search, with the plain identifier, returned
\* no products, and at most once; when both return no products the
\* identifier gets a "No encontrado" record and no detail, cart add, price
\* read or cart remove call is made for it.
C7_SearchFallback ==
    /\ \A j \in DOMAIN trace :
          /\ IsFirstSearch(trace[j]) <=> j = 1
          /\ IsFallbackSearch(trace[j]) <=> (j = 2 /\ trace[1].ret = "empty")
          /\ trace[j].call = "search" => j <= 2
    /\ (trace # <<>> /\ trace[1].ret = "empty" /\ Len(trace) = 1) => pc = "search2"
    /\ (Len(trace) >= 2 /\ trace[1].ret = "empty" /\ trace[2].ret = "empty") =>
          /\ Len(trace) = 2
          /\ pc = "loop"
          /\ rows[idx] = NotFoundRow(upc, run)
    /\ pc = "search2" => (Len(trace) = 1 /\ trace[1].ret = "empty")

\* C7 witness: both searches returned no products and the identifier got the
\* "No encontrado" record
C7_Witness ==
    /\ pc = "loop"
    /\ Len(trace) = 2
    /\ IsFirstSearch(trace[1]) /\ trace[1].ret = "empty"
    /\ IsFallbackSearch(trace[2]) /\ trace[2].ret = "empty"
    /\ Nombre(rows[idx]) = <<"No encontrado">>

\* the positions of the price reads in the trace
Reads == {j \in DOMAIN trace : trace[j].call = "get_prices"}

\* C8: after a cart add that returned OK the price read is attempted at most
\* twice; the second attempt is made exactly when the first returned no
\* prices (None: non-OK response, no entries, unparseable body); when the
\* second returns none either the record has "-" in both price fields and
\* the product name taken from the detail or, failing that, the search.
C8_PriceReadRetry ==
    /\ Cardinality(Reads) <= 2
    /\ \A j \in Reads :
          /\ \E i \in 1 .. (j - 1) :
                trace[i].call = "add" /\ trace[i].ret = "true" /\ Reads \subseteq i + 1 .. i + 2
          /\ j - 1 \notin Reads =>
                ((j + 1 \in Reads) <=> (trace[j].ret = "none" /\ j + 1 <= Len(trace)))
          /\ (j - 1 \notin Reads /\ trace[j].ret = "none" /\ j = Len(trace)) => pc = "prices2"
          /\ (j - 1 \in Reads /\ trace[j].ret = "none") =>
                /\ pc \in {"remove", "loop"}
                /\ rows[idx] = Row(upc, Dash, Dash,
                                   strip(IF ProductDetail(picked.code).name # <<>>
                                         THEN ProductDetail(picked.code).name
                                         ELSE picked.name),
                                   now_str(run))
    /\ pc = "prices2" => (Reads # {} /\ trace[Len(trace)].ret = "none")

\* C8 witness: both price reads returned nothing and the record carries the
\* name of the product with "-" prices
C8_Witness ==
    /\ pc = "remove"
    /\ Cardinality(Reads) = 2
    /\ \A j \in Reads : trace[j].ret = "none"
    /\ SinPromo(rows[idx]) = Dash
    /\ Nombre(rows[idx]) = <<"aspirina">>


\* C9 as stated: a detail matches an identifier when the identifier's digits
\* occur as a substring of the digits of one of the known fields, and an
\* identifier with no digits matches nothing
C9_MatchIsSubstring ==
    m_res # "none" =>
       (m_res = "true" <=>
           /\ clean_digits(m_upc) # <<>>
           /\ \E f \in KnownFields(m_detail) :
                 IsSubstring(clean_digits(m_upc), clean_digits(f)))

\* C9 amended: a detail matches an identifier exactly when the identifier
\* has digits and they are equal to (not merely contained in) the digits of
\* one of the known fields: gtin, ean, upc, sku, visualCode, an element of
\* eans, gtins or upcs, or a value of a classification feature; an
\* identifier with no digits matches nothing.
C9_MatchIsEquality ==
    m_res # "none" =>
       (m_res = "true" <=>
           /\ clean_digits(m_upc) # <<>>
           /\ \E f \in KnownFields(m_detail) : clean_digits(f) = clean_digits(m_upc))

\* C9 witness: an identifier written with a separator matched the second
\* element of a list field
C9_Witness ==
    /\ m_res = "true"
    /\ m_upc = <<"1", "-", "2">>
    /\ m_detail.eans = << <<"1", "2", "3">>, <<"1", "2">> >>

\* The record an identifier gets when every call made for it returns OK and
\* nothing was processed before it: the cart holds the picked product alone.
Alone(u) ==
    LET first == search(u, "ok")
        ps == IF Fallback(first) THEN search(FreeText(u), "ok") ELSE first
        hits == {i \in DOMAIN ps : ps[i].code # <<>> /\ Matches(detail_of(ps[i].code, "ok"), u)}
    IN  IF hits = {} THEN NotFoundRow(u, 0)
        ELSE LET p == ps[CHOOSE i \in hits : \A j \in hits : i <= j]
                 d == detail_of(p.code, "ok")
                 g == get_prices(<<p.code>>, 0, "ok")
                 n == strip(IF d.name # <<>> THEN d.name ELSE p.name)
             IN  PricedRow(u, g.base, g.total, IF g.name # <<>> THEN g.name ELSE n, 0)

\* two records agree in both price fields and in the product name
SameRecord(r1, r2) ==
    /\ SinPromo(r1) = SinPromo(r2)
    /\ ConPromo(r1) = ConPromo(r2)
    /\ Nombre(r1) = Nombre(r2)

\* the current identifier has its record and every call made for it before
\* the record returned OK
CleanRecord ==
    /\ pc \in {"remove", "loop"}
    /\ idx > 0
    /\ Len(rows) = idx
    /\ allok

\* Alone is the record of an identifier processed first in a run, in the
\* cart the run created
AloneIsFirstRecord == (CleanRecord /\ idx = 1 /\ cart_id = "new") => SameRecord(rows[1], Alone(upc))

\* C4 as stated: the record of an identifier (price fields and name) is the
\* same whatever was processed before it and however those calls ended; in
\* particular, when all its own calls return OK it is the record the
\* identifier gets when nothing was processed before it
C4_RecordIndependentOfHistory == CleanRecord => SameRecord(rows[idx], Alone(upc))

\* C10 as stated: whenever a record with a numeric price is produced, the
\* price and name read from cart entry 0 are those of the product picked for
\* the identifier
C10_ReadsPickedProduct ==
    (pc = "remove" /\ got.some) =>
       /\ got.product = picked.code
       /\ SinPromo(rows[idx]) = money(num(CartEntry(picked.code).basePrice))

\* Cart.create returned None in this run: its last step found neither a guid
\* nor a code
CreatedNothing == created # <<>> /\ created[Len(created)] = "None"

\* C11: when Cart.create returns nothing (the POST is non-OK or unparseable,
\* or neither the POST, the list of carts nor the current cart yields a guid
\* or a code), main raises before any identifier is processed: the process
\* has ended with no identifier begun, no search, detail, add, price read or
\* remove call issued, no record produced and the output file as it was
\* when the run started.  The steps of the loop are only ever taken with a
\* cart id.
C11_NoCartNoProcessing ==
    /\ CreatedNothing => pc = "aborted" /\ cart_id = ""
    /\ pc = "aborted" =>
          /\ idx = 0
          /\ trace = <<>>
          /\ rows = <<>>
          /\ csv = csv0
    /\ cart_id = "" =>
          pc \in {"idle", "aborted", "create_post", "create_list", "create_current"}

\* C11 witness: a second run whose POST, list of carts and current cart gave
\* neither a guid nor a code has raised, and the file still holds the header
\* and the one record that the first run wrote
C11_Witness ==
    /\ run = 2
    /\ pc = "aborted"
    /\ created = <<"POST carts", "GET carts", "None">>
    /\ csv.exists
    /\ Len(csv.lines) = 2
    /\ rows = <<>>

\* a price field that holds a price: neither empty nor "-"
HoldsPrice(field) == field # <<>> /\ field # Dash

\* some call made for the current identifier raised
Raised == \E i \in DOMAIN trace : trace[i].ret = "raise"

\* the iteration of the current identifier has appended its record
RecordDone == pc \in {"loop", "remove"} /\ idx >= 1 /\ Len(rows) = idx

\* C12: in every record produced, "Precio con promoción" holds a price only
\* when the total price of the cart entry read is strictly lower than its
\* base price, and then it is that total while "Precio sin promoción" is the
\* base; when the total is equal to or higher than the base, or either value
\* is missing, it is the empty string.  Both price fields are "-" exactly in
\* the records of an identifier not found, of a failed add, of prices not
\* available and of an exception; in no record is only one of them "-".
C12_PromotionOnlyWhenLower ==
    /\ \A i \in DOMAIN hist :
          /\ SinPromo(hist[i]) = Dash <=> ConPromo(hist[i]) = Dash
          /\ HoldsPrice(ConPromo(hist[i])) =>
                /\ HoldsPrice(SinPromo(hist[i]))
                /\ ParseFloat(ConPromo(hist[i])) < ParseFloat(SinPromo(hist[i]))
    /\ RecordDone =>
          LET r == rows[idx]
              priced == Returned("get_prices", "prices")
              notfound == ~Raised /\ ~\E i \in DOMAIN trace : trace[i].call = "add"
              addfailed == Returned("add", "false")
              unavailable == ~Raised /\ Returned("add", "true") /\ ~priced
          IN  /\ SinPromo(r) = Dash <=> (notfound \/ addfailed \/ unavailable \/ Raised)
              /\ SinPromo(r) = Dash <=> ~priced
              /\ priced =>
                    LET e == CartEntry(got.product)
                        base == num(e.basePrice)
                        total == num(e.totalPrice)
                    IN  /\ SinPromo(r) = money(base)
                        /\ IF base # None /\ total # None /\ total < base
                           THEN ConPromo(r) = money(total) /\ HoldsPrice(ConPromo(r))
                           ELSE ConPromo(r) = <<>>

\* C12 witness: a record with a promotion price, of an entry whose base price
\* came as the string "$10.00" and whose total as the number 8
C12_Witness ==
    /\ RecordDone
    /\ Returned("get_prices", "prices")
    /\ prices[CodeA].basePrice = JStr(<<"$", "1", "0", ".", "0", "0">>)
    /\ prices[CodeA].totalPrice = JNum(800)
    /\ SinPromo(rows[idx]) = <<"1", "0", ".", "0", "0">>
    /\ ConPromo(rows[idx]) = <<"8", ".", "0", "0">>

====
